---- MODULE Spec2Model ----
(***************************************************************************)
(* EcoReveal, src/ai.js: the in-browser EcoAI namespace.                   *)
(*                                                                         *)
(*   - the lazily created pipelines promise (ensurePipelines),             *)
(*   - the asynchronous analyze handler, one instance per caller, with its *)
(*     suspension points (the awaits of classifyText and classifyImage),   *)
(*   - the synchronous fusion that analyze runs once both classifications  *)
(*     are in: keywords, edibleDecision, the coarse category, the lookup   *)
(*     tables, the overall confidence,                                      *)
(*   - explain, the renderer of a report.                                  *)
(*                                                                         *)
(* Strings are TLA+ strings; a JavaScript regular expression that is an    *)
(* alternation of literals is the test "some literal is a substring".      *)
(* Numbers that JavaScript keeps as doubles are fixed-point integers in    *)
(* units of 1/Unit, so that 0.5, 0.75, 0.8 and a third of a sum of         *)
(* hundredths are exact.                                                   *)
(***************************************************************************)
EXTENDS Integers, Sequences, FiniteSets, TLC

VARIABLES
    world,              \* per caller: the argument of analyze and what the two classifiers answer
    transformers,       \* window.transformers is set
    pipelinesPromise,   \* _pipelinesPromise: "null", "pending", "fulfilled", "rejected"
    initPc,             \* position of the async body that _pipelinesPromise runs
    initStarts,         \* how many times that body has been started
    calls,              \* per caller: position and locals of its analyze call
    explainArg,         \* the argument handed to explain
    explainOut          \* what explain returned for it

vars == <<world, transformers, pipelinesPromise, initPc, initStarts, calls, explainArg, explainOut>>

-----------------------------------------------------------------------------
(* Bounds of the model *)

\* number of concurrent analyze calls in Spec
NCalls == 2
\* classifier scores are k/ScoreSteps, k in 0..ScoreSteps, cut to hundredths
ScoreSteps == 2

-----------------------------------------------------------------------------
(* Values *)

\* JavaScript null / undefined, comparable with every record
Null == [null |-> TRUE]

\* fixed point: the real number x is the integer x * Unit
Unit == 3 * 100
Fx(n) == n * Unit
\* a score given in hundredths
Hundredths(h) == h * 3

Max2(a, b) == IF a >= b THEN a ELSE b
Min2(a, b) == IF a <= b THEN a ELSE b

\* Math.round: floor(x + 0.5)
MathRound(x) == ((x + (Unit \div 2)) \div Unit) * Unit

\* clamp(n, a, b) = Math.max(a, Math.min(b, n))
clamp(n, a, b) == Max2(a, Min2(b, n))

IsInteger(x) == x % Unit = 0

-----------------------------------------------------------------------------
(* Strings *)

UpperChars == "ABCDEFGHIJKLMNOPQRSTUVWXYZ"
LowerChars == "abcdefghijklmnopqrstuvwxyz"
DigitChars == "0123456789"

CharAt(s, i) == SubSeq(s, i, i)

CharIn(ch, chars) == \E k \in 1..Len(chars) : CharAt(chars, k) = ch

LowerChar(ch) ==
    IF CharIn(ch, UpperChars)
    THEN CharAt(LowerChars, CHOOSE k \in 1..Len(UpperChars) : CharAt(UpperChars, k) = ch)
    ELSE ch

RECURSIVE MapLower(_, _)
MapLower(s, i) == IF i > Len(s) THEN "" ELSE LowerChar(CharAt(s, i)) \o MapLower(s, i + 1)

\* String.prototype.toLowerCase
toLowerCase(s) == MapLower(s, 1)

\* a regular expression that is the literal pat, tested against s
Contains(s, pat) ==
    \E i \in 1..(Len(s) - Len(pat) + 1) : SubSeq(s, i, i + Len(pat) - 1) = pat

\* /(p1|p2|...)/.test(s)
TestAny(pats, s) == \E p \in pats : Contains(s, p)

\* String.prototype.trim on the blanks the model's texts hold
RECURSIVE TrimLeft(_)
TrimLeft(s) == IF Len(s) > 0 /\ CharAt(s, 1) = " " THEN TrimLeft(SubSeq(s, 2, Len(s))) ELSE s
RECURSIVE TrimRight(_)
TrimRight(s) ==
    IF Len(s) > 0 /\ CharAt(s, Len(s)) = " " THEN TrimRight(SubSeq(s, 1, Len(s) - 1)) ELSE s
trim(s) == TrimRight(TrimLeft(s))

\* keywords, src/ai.js:48: lower case, every character outside [a-z0-9 ] becomes
\* a blank, split on blanks, empty tokens dropped
IsTokenChar(ch) == CharIn(ch, LowerChars) \/ CharIn(ch, DigitChars)

RECURSIVE SplitTokens(_, _, _, _)
SplitTokens(s, i, cur, acc) ==
    IF i > Len(s)
    THEN IF cur = "" THEN acc ELSE Append(acc, cur)
    ELSE IF IsTokenChar(CharAt(s, i))
         THEN SplitTokens(s, i + 1, cur \o CharAt(s, i), acc)
         ELSE SplitTokens(s, i + 1, "", IF cur = "" THEN acc ELSE Append(acc, cur))

keywords(s) == SplitTokens(toLowerCase(s), 1, "", <<>>)

-----------------------------------------------------------------------------
(* Tables of src/ai.js *)

EDIBLE_HINTS ==
    {"food", "fruit", "vegetable", "snack", "drink", "beverage", "meat", "chicken",
     "fish", "tuna", "bread", "rice", "pasta", "milk", "dairy", "cheese", "yogurt",
     "chocolate", "candy", "juice", "water", "coffee", "tea", "cookie", "biscuit",
     "banana", "apple", "orange", "tomato", "potato"}

NON_EDIBLE_HINTS ==
    {"detergent", "bleach", "cleaner", "soap", "shampoo", "conditioner", "lotion",
     "cream", "cosmetic", "makeup", "electronics", "phone", "laptop", "battery",
     "remote", "toy", "clothes", "tshirt", "shirt", "jacket", "shoe", "paint", "glue",
     "pill", "medicine", "medication", "drug", "supplement"}

TEXT_LABELS ==
    <<"food product", "drink", "fruit", "vegetable", "snack", "dairy", "meat",
      "cosmetic", "cleaning product", "electronic device", "toy", "clothing",
      "medication", "plastic packaging", "battery">>

\* Array.prototype.includes
includes(seq, x) == \E i \in DOMAIN seq : seq[i] = x

\* the alternation of the regular expression of edibleDecision (flags gi)
EDIBLE_IMAGE_PATTERN ==
    {"banana", "apple", "orange", "fruit", "vegetable", "food", "drink", "beverage",
     "bread", "pizza", "burger", "sandwich", "milk", "coffee", "tea", "chocolate",
     "snack"}

\* kcal, protein, fat, carbs in tenths
Tenths(t) == t * (Unit \div 10)

NutritionRow(kcal, protein, fat, carbs) ==
    [kcal |-> Tenths(kcal), protein |-> Tenths(protein), fat |-> Tenths(fat),
     carbs |-> Tenths(carbs)]

NUTRITION_KEYS == {"fruit", "vegetable", "snack", "drink", "dairy", "meat", "food product"}

NUTRITION_TABLE(key) ==
    CASE key = "fruit"     -> NutritionRow(600, 5, 2, 150)
      [] key = "vegetable" -> NutritionRow(350, 20, 2, 70)
      [] key = "snack"     -> NutritionRow(5200, 70, 300, 550)
      [] key = "drink"     -> NutritionRow(450, 0, 0, 110)
      [] key = "dairy"     -> NutritionRow(1200, 60, 60, 80)
      [] key = "meat"      -> NutritionRow(2500, 260, 150, 0)
      [] OTHER             -> NutritionRow(1800, 50, 60, 280)

guessNutrition(label) ==
    LET key  == toLowerCase(label)
        base == IF key \in NUTRITION_KEYS THEN NUTRITION_TABLE(key)
                ELSE NUTRITION_TABLE("food product")
    IN  [per100g |-> TRUE, kcal |-> base.kcal, protein_g |-> base.protein,
         fat_g |-> base.fat, carbs_g |-> base.carbs]

ecoAssessmentFromLabel(label0) ==
    LET label == toLowerCase(label0) IN
    IF label \in {"drink"} THEN
        [packaging |-> "Likely plastic/aluminum bottle or can",
         footprint |-> "Medium (beverage processing + packaging)",
         recycle   |-> "Prefer aluminum can or reusable bottle"]
    ELSE IF label \in {"fruit", "vegetable"} THEN
        [packaging |-> "Minimal; avoid plastic wrap when possible",
         footprint |-> "Low to medium (transport dependent)",
         recycle   |-> "Compost organic waste"]
    ELSE IF label \in {"snack", "dairy", "food product", "meat"} THEN
        [packaging |-> "Often plastic/laminate; hard to recycle",
         footprint |-> "Medium to high (processing, cold chain for dairy/meat)",
         recycle   |-> "Check local rules; reduce single-use packaging"]
    ELSE IF label \in {"cosmetic", "cleaning product", "electronic device", "battery"} THEN
        [packaging |-> "Plastic or mixed materials",
         footprint |-> "Medium",
         recycle   |-> "Take to proper e-waste/hazard drop-off if applicable"]
    ELSE
        [packaging |-> "Unknown", footprint |-> "Unknown",
         recycle   |-> "Check local guidance"]

alternativesFromLabel(label0) ==
    LET label == toLowerCase(label0) IN
    IF label = "drink" THEN
        <<"Use a reusable bottle", "Choose aluminum cans over plastic when possible">>
    ELSE IF label = "snack" THEN
        <<"Buy in bulk to reduce packaging", "Choose snacks in paper or compostable wrapping">>
    ELSE IF label = "meat" THEN
        <<"Try one meatless day per week",
          "Choose poultry or fish over red meat for lower footprint">>
    ELSE IF label = "cosmetic" THEN
        <<"Refill stations if available", "Choose products with minimal packaging">>
    ELSE IF label = "cleaning product" THEN
        <<"Concentrates or refills", "Use vinegar/baking soda for some tasks">>
    ELSE IF label = "electronic device" THEN
        <<"Repair before replacing", "Buy refurbished where possible">>
    ELSE IF label = "battery" THEN
        <<"Use rechargeable batteries", "Recycle at e-waste centers">>
    ELSE IF label \in {"fruit", "vegetable", "dairy", "food product"} THEN
        <<"Prefer local/seasonal options", "Choose minimal packaging">>
    ELSE
        <<"Consider products with eco-labels", "Reduce single-use packaging">>

TIP_BOTTLE  == <<"Carry a reusable bottle", "Avoid single-use plastics">>
TIP_BATTERY == <<"Collect used batteries for proper recycling">>
TIP_SEAFOOD == <<"Look for MSC-certified seafood">>
TIP_MEAT    == <<"Moderate red meat intake to lower emissions">>
TIP_GENERIC == <<"Check your local recycling guide for specific rules">>

\* new Set(kw)
SetOf(kw) == {kw[i] : i \in DOMAIN kw}

\* the same rules with the battery test ahead of the bottle test
tipsFromContext_batteryFirst(kw) ==
    LET kset == SetOf(kw) IN
    IF "battery" \in kset THEN TIP_BATTERY
    ELSE IF "bottle" \in kset THEN TIP_BOTTLE
    ELSE IF "tuna" \in kset \/ "fish" \in kset THEN TIP_SEAFOOD
    ELSE IF "beef" \in kset \/ "meat" \in kset THEN TIP_MEAT
    ELSE TIP_GENERIC

tipsFromContext(kw) ==
    LET kset == SetOf(kw) IN
    IF "bottle" \in kset THEN TIP_BOTTLE
    ELSE IF "battery" \in kset THEN TIP_BATTERY
    ELSE IF "tuna" \in kset \/ "fish" \in kset THEN TIP_SEAFOOD
    ELSE IF "beef" \in kset \/ "meat" \in kset THEN TIP_MEAT
    ELSE TIP_GENERIC

-----------------------------------------------------------------------------
(* edibleDecision, src/ai.js:149 *)

\* a label is truthy when it is a non-empty string
TruthyLabel(top) == top # Null /\ top.label # ""

EdibleLikelyFromImage(imageTop) ==
    TruthyLabel(imageTop) /\ TestAny(EDIBLE_IMAGE_PATTERN, toLowerCase(imageTop.label))

HasEdibleKw(textKw) == \E i \in DOMAIN textKw : textKw[i] \in EDIBLE_HINTS
HasNonEdibleKw(textKw) == \E i \in DOMAIN textKw : textKw[i] \in NON_EDIBLE_HINTS

\* 0.5, 0.75, 0.8
ScoreHalf == Unit \div 2
ScoreKw == (3 * Unit) \div 4
ScoreImage == (4 * Unit) \div 5

\* the two keyword rules in the other order: an edible keyword outvotes a
\* non-edible one
edibleDecision_edibleLast(textTop, imageTop, textKw) ==
    LET s1 == IF EdibleLikelyFromImage(imageTop) THEN ScoreImage ELSE ScoreHalf
        e1 == EdibleLikelyFromImage(imageTop)
        e2 == IF HasNonEdibleKw(textKw) THEN FALSE ELSE e1
        s2 == IF HasNonEdibleKw(textKw) THEN Max2(s1, ScoreKw) ELSE s1
        e3 == IF HasEdibleKw(textKw) THEN TRUE ELSE e2
        s3 == IF HasEdibleKw(textKw) THEN Max2(s2, ScoreKw) ELSE s2
    IN  [isEdible |-> e3, confidence |-> MathRound(clamp(s3, Fx(0), Fx(1)) * 100)]

edibleDecision(textTop, imageTop, textKw) ==
    LET e0 == FALSE
        s0 == ScoreHalf
        e1 == IF EdibleLikelyFromImage(imageTop) THEN TRUE ELSE e0
        s1 == IF EdibleLikelyFromImage(imageTop) THEN ScoreImage ELSE s0
        e2 == IF HasEdibleKw(textKw) THEN TRUE ELSE e1
        s2 == IF HasEdibleKw(textKw) THEN Max2(s1, ScoreKw) ELSE s1
        e3 == IF HasNonEdibleKw(textKw) THEN FALSE ELSE e2
        s3 == IF HasNonEdibleKw(textKw) THEN Max2(s2, ScoreKw) ELSE s2
    IN  [isEdible |-> e3, confidence |-> MathRound(clamp(s3, Fx(0), Fx(1)) * 100)]

-----------------------------------------------------------------------------
(* The coarse category, src/ai.js:232-247 *)

\* the image label ahead of the text label
drivingLabel_imageFirst(textTop, imageTop) ==
    IF TruthyLabel(imageTop) THEN imageTop.label
    ELSE IF TruthyLabel(textTop) THEN textTop.label
    ELSE "unknown"

drivingLabel(textTop, imageTop) ==
    IF TruthyLabel(textTop) THEN textTop.label
    ELSE IF TruthyLabel(imageTop) THEN imageTop.label
    ELSE "unknown"

PAT_FRUIT      == {"banana", "apple", "orange", "fruit"}
PAT_VEGETABLE  == {"tomato", "potato", "vegetable", "cabbage", "carrot"}
PAT_DAIRY      == {"milk", "yogurt", "cheese", "dairy"}
PAT_MEAT       == {"meat", "beef", "chicken", "pork", "fish", "tuna"}
PAT_DRINK      == {"drink", "beverage", "bottle", "can", "juice", "soda", "coffee", "tea", "water"}
PAT_SNACK      == {"snack", "chips", "chocolate", "cookie", "biscuit", "candy", "bar"}
PAT_CLEANING   == {"detergent", "cleaner", "soap", "shampoo", "bleach"}
PAT_ELECTRONIC == {"phone", "laptop", "camera", "electronic", "remote", "battery"}
PAT_COSMETIC   == {"lipstick", "cream", "cosmetic", "makeup", "lotion"}
PAT_CLOTHING   == {"shirt", "jacket", "shoe", "clothing", "t-shirt"}

\* the same rules with a last line that falls back to the driving label itself
coarse_fallbackDriving(textTop, imageTop) ==
    LET l == toLowerCase(drivingLabel(textTop, imageTop)) IN
    IF TestAny(PAT_FRUIT, l) THEN "fruit"
    ELSE IF TestAny(PAT_VEGETABLE, l) THEN "vegetable"
    ELSE IF TestAny(PAT_DAIRY, l) THEN "dairy"
    ELSE IF TestAny(PAT_MEAT, l) THEN "meat"
    ELSE IF TestAny(PAT_DRINK, l) THEN "drink"
    ELSE IF TestAny(PAT_SNACK, l) THEN "snack"
    ELSE IF TestAny(PAT_CLEANING, l) THEN "cleaning product"
    ELSE IF TestAny(PAT_ELECTRONIC, l) THEN "electronic device"
    ELSE IF TestAny(PAT_COSMETIC, l) THEN "cosmetic"
    ELSE IF TestAny(PAT_CLOTHING, l) THEN "clothing"
    ELSE IF textTop # Null /\ includes(TEXT_LABELS, textTop.label) THEN textTop.label
    ELSE drivingLabel(textTop, imageTop)

coarse(textTop, imageTop) ==
    LET l == toLowerCase(drivingLabel(textTop, imageTop)) IN
    IF TestAny(PAT_FRUIT, l) THEN "fruit"
    ELSE IF TestAny(PAT_VEGETABLE, l) THEN "vegetable"
    ELSE IF TestAny(PAT_DAIRY, l) THEN "dairy"
    ELSE IF TestAny(PAT_MEAT, l) THEN "meat"
    ELSE IF TestAny(PAT_DRINK, l) THEN "drink"
    ELSE IF TestAny(PAT_SNACK, l) THEN "snack"
    ELSE IF TestAny(PAT_CLEANING, l) THEN "cleaning product"
    ELSE IF TestAny(PAT_ELECTRONIC, l) THEN "electronic device"
    ELSE IF TestAny(PAT_COSMETIC, l) THEN "cosmetic"
    ELSE IF TestAny(PAT_CLOTHING, l) THEN "clothing"
    ELSE IF textTop # Null /\ includes(TEXT_LABELS, textTop.label) THEN textTop.label
    ELSE "food product"

-----------------------------------------------------------------------------
(* What the classifiers hand back, src/ai.js:168-190 *)

\* the loop of classifyText: the first index of the greatest score (strict >),
\* 0 when there is no label; indices here are 1-based, 0 is "none found"
RECURSIVE TopLoop(_, _, _, _, _)
TopLoop(labels, scores, i, topIdx, topScore) ==
    IF i > Len(labels) THEN topIdx
    ELSE IF i <= Len(scores) /\ scores[i] > topScore
         THEN TopLoop(labels, scores, i + 1, i, scores[i])
         ELSE TopLoop(labels, scores, i + 1, topIdx, topScore)

\* classifyText after its awaits: out is {labels, scores}
classifyTextResult(out) ==
    LET topIdx == TopLoop(out.labels, out.scores, 1, 0, Fx(-1))
        \* with no label the loop leaves index 0 and labels[0] is undefined;
        \* with labels and no greater score it leaves index 0 too, the first label
        idx    == IF topIdx = 0 THEN 1 ELSE topIdx
        label  == IF idx <= Len(out.labels) /\ out.labels[idx] # ""
                  THEN out.labels[idx] ELSE "unknown"
        score  == IF idx <= Len(out.scores) THEN out.scores[idx] ELSE Fx(0)
    IN  [labels |-> out.labels, scores |-> out.scores,
         top |-> [label |-> label, score |-> score]]

\* classifyImage after its awaits: out is an array of {label, score}
classifyImageResult(out) ==
    [top |-> IF Len(out) > 0 THEN out[1] ELSE [label |-> "unknown", score |-> Fx(0)],
     all |-> out]

-----------------------------------------------------------------------------
(* analyze from line 225 on: the fusion and the report *)

\* the nutrition estimate computed whatever the verdict
nutritionOf_always(edible, coarseLabel) == guessNutrition(coarseLabel)

nutritionOf(edible, coarseLabel) ==
    IF edible.isEdible THEN guessNutrition(coarseLabel) ELSE Null

\* the average scaled to a percentage and not rounded
overallConfidence_noRound(textTop, imageTop, edible) ==
    LET ts  == IF textTop # Null THEN textTop.score ELSE ScoreHalf
        is  == IF imageTop # Null THEN imageTop.score ELSE ScoreHalf
        avg == (ts + is + (edible.confidence \div 100)) \div 3
    IN  clamp(avg, Fx(0), Fx(1)) * 100

overallConfidence(textTop, imageTop, edible) ==
    LET ts  == IF textTop # Null THEN textTop.score ELSE ScoreHalf
        is  == IF imageTop # Null THEN imageTop.score ELSE ScoreHalf
        avg == (ts + is + (edible.confidence \div 100)) \div 3
    IN  MathRound(clamp(avg, Fx(0), Fx(1)) * 100)

EXPLAIN_EDIBLE == "Inferred from model predictions and keywords indicating food/edible items."
EXPLAIN_NON_EDIBLE == "Inferred from model predictions or keywords indicating non-food items."

\* the report of the return statement, the locals given
buildReport(input, textKw, textTop, imageTop, edible, cat) ==
    [coarse |-> cat,
     report |->
        [input |-> [text |-> input.text, imageName |-> input.imageName,
                    location |-> input.location],
         model |-> [textTop |-> textTop, imageTop |-> imageTop],
         edible |-> [isEdible |-> edible.isEdible,
                     confidence |-> edible.confidence,
                     explain |-> IF edible.isEdible THEN EXPLAIN_EDIBLE
                                 ELSE EXPLAIN_NON_EDIBLE],
         nutrition |-> nutritionOf(edible, cat),
         eco |-> ecoAssessmentFromLabel(cat),
         alternatives |-> alternativesFromLabel(cat),
         tips |-> tipsFromContext(textKw),
         overallConfidence |-> overallConfidence(textTop, imageTop, edible)]]

TopOf(info) == IF info # Null THEN info.top ELSE Null

\* lines 225-277: the locals of analyze, each computed once, and the report
fusion(input, textKw, textInfo, imageInfo) ==
    CHOOSE f \in {buildReport(input, textKw, TopOf(textInfo), TopOf(imageInfo), edible, cat) :
                    edible \in {edibleDecision(TopOf(textInfo), TopOf(imageInfo), textKw)},
                    cat \in {coarse(TopOf(textInfo), TopOf(imageInfo))}} : TRUE

-----------------------------------------------------------------------------
(* The pipelines promise, src/ai.js:15-43 *)

Callers == DOMAIN world

\* the module-level state that ensurePipelines reads and writes
Globals == [promise |-> pipelinesPromise, initPc |-> initPc, initStarts |-> initStarts]

\* where the async body stops first: at the script load, or, with
\* window.transformers present, at the construction of the text pipeline
InitBodyStart(tf) == IF tf THEN "textPipeline" ELSE "loadScript"

\* ensurePipelines without its first line: every call starts the body again
ensurePipelines_noGuard(g, tf) ==
    [promise |-> "pending", initPc |-> InitBodyStart(tf), initStarts |-> g.initStarts + 1]

\* ensurePipelines that forgets a rejected promise: the call after a failed
\* initialisation starts the body again
ensurePipelines_retryOnFailure(g, tf) ==
    IF g.promise \notin {"null", "rejected"} THEN g
    ELSE [promise |-> "pending", initPc |-> InitBodyStart(tf),
          initStarts |-> g.initStarts + 1]

\* the synchronous part of ensurePipelines: the promise it returns is g.promise
ensurePipelines(g, tf) ==
    IF g.promise # "null" THEN g
    ELSE [promise |-> "pending", initPc |-> InitBodyStart(tf),
          initStarts |-> g.initStarts + 1]

ERR_SCRIPT == [message |-> "Failed to load Transformers.js"]
ERR_TEXT_PIPELINE == [message |-> "pipeline('zero-shot-classification') rejected"]
ERR_IMAGE_PIPELINE == [message |-> "pipeline('image-classification') rejected"]
ERR_TEXT_CLASSIFIER == [message |-> "textClassifier rejected"]
ERR_IMAGE_CLASSIFIER == [message |-> "imageClassifier rejected"]

\* the reason the pipelines promise was rejected with
InitError ==
    CASE initPc = "failedScript" -> ERR_SCRIPT
      [] initPc = "failedTextPipeline" -> ERR_TEXT_PIPELINE
      [] initPc = "failedImagePipeline" -> ERR_IMAGE_PIPELINE
      [] OTHER -> Null

\* the script element fires onload (and the script has set window.transformers)
\* or onerror
ScriptLoad(ok) ==
    /\ initPc = "loadScript"
    /\ IF ok
       THEN /\ transformers' = TRUE
            /\ initPc' = "textPipeline"
            /\ pipelinesPromise' = pipelinesPromise
       ELSE /\ transformers' = transformers
            /\ initPc' = "failedScript"
            /\ pipelinesPromise' = "rejected"
    /\ UNCHANGED <<world, initStarts, calls, explainArg, explainOut>>

\* pipeline('zero-shot-classification', ...) settles
TextPipelineSettle(ok) ==
    /\ initPc = "textPipeline"
    /\ IF ok
       THEN /\ initPc' = "imagePipeline"
            /\ pipelinesPromise' = pipelinesPromise
       ELSE /\ initPc' = "failedTextPipeline"
            /\ pipelinesPromise' = "rejected"
    /\ UNCHANGED <<world, transformers, initStarts, calls, explainArg, explainOut>>

\* pipeline('image-classification', ...) settles; on success the body returns
ImagePipelineSettle(ok) ==
    /\ initPc = "imagePipeline"
    /\ IF ok
       THEN /\ initPc' = "done"
            /\ pipelinesPromise' = "fulfilled"
       ELSE /\ initPc' = "failedImagePipeline"
            /\ pipelinesPromise' = "rejected"
    /\ UNCHANGED <<world, transformers, initStarts, calls, explainArg, explainOut>>

-----------------------------------------------------------------------------
(* analyze, src/ai.js:209-282, one call per caller *)

IdleCall ==
    [pc |-> "idle", textKw |-> <<>>, textInfo |-> Null, imageInfo |-> Null,
     pending |-> {}, textCalls |-> 0, imageCalls |-> 0, awaited |-> 0,
     raised |-> Null, error |-> Null, result |-> Null, coarse |-> "",
     afterFailure |-> FALSE]

\* lines 225-277: the return of the report
finish(call, input) ==
    LET f == fusion(input, call.textKw, call.textInfo, call.imageInfo)
    IN  [call EXCEPT !.pc = "returned", !.result = f.report, !.coarse = f.coarse]

\* an awaited call of analyze rejects with err: the call is settled
rejected(call, err) == [call EXCEPT !.pending = {}, !.raised = err]

\* a catch that goes on to a report without the failed classification
onError_degraded(call, input, err) == finish(call, input)

\* lines 278-281: the rejection lands in the catch, which logs and rethrows
onError(call, input, err) == [call EXCEPT !.pc = "thrown", !.error = err]

\* lines 220-223 with the await of line 222 left out: imageInfo is the pending
\* promise, whose top is undefined
imageOrFinish_noAwait(call, input, g, tf) ==
    IF input.image # ""
    THEN [call |-> finish([call EXCEPT !.pending = @ \cup {"image"}], input),
          g |-> ensurePipelines(g, tf)]
    ELSE [call |-> finish(call, input), g |-> g]

\* lines 220-223 and on: with an image, classifyImage is called and runs up to
\* its await of ensurePipelines; without one, analyze runs through to its return
imageOrFinish(call, input, g, tf) ==
    IF input.image # ""
    THEN LET g2 == ensurePipelines(g, tf)
         IN  [call |-> [call EXCEPT !.pc = "awaitPipelinesImage",
                                    !.pending = @ \cup {"image"},
                                    !.awaited = g2.initStarts],
              g |-> g2]
    ELSE [call |-> finish(call, input), g |-> g]

\* lines 211-218 and on: the synchronous run of analyze up to its first await;
\* afterFailure records whether _pipelinesPromise was already rejected when
\* analyze was called
analyzeStart(call, input, g, tf) ==
    LET c1 == [call EXCEPT !.textKw = keywords(input.text \o " " \o input.imageName),
                           !.afterFailure = (g.promise = "rejected")]
    IN  IF input.text # "" /\ Len(trim(input.text)) > 0
        THEN LET g2 == ensurePipelines(g, tf)
             IN  [call |-> [c1 EXCEPT !.pc = "awaitPipelinesText",
                                      !.pending = @ \cup {"text"},
                                      !.awaited = g2.initStarts],
                  g |-> g2]
        ELSE imageOrFinish(c1, input, g, tf)

SetGlobals(g) ==
    /\ pipelinesPromise' = g.promise
    /\ initPc' = g.initPc
    /\ initStarts' = g.initStarts

\* EcoAI.analyze(input) is called
AnalyzeCall(c) ==
    /\ calls[c].pc = "idle"
    /\ LET r == analyzeStart(calls[c], world[c], Globals, transformers)
       IN  /\ calls' = [calls EXCEPT ![c] = r.call]
           /\ SetGlobals(r.g)
    /\ UNCHANGED <<world, transformers, explainArg, explainOut>>

\* the caller whose call has returned or thrown calls EcoAI.analyze(input)
\* again: a fresh invocation against the same module-level state
AnalyzeAgain(c) ==
    /\ calls[c].pc \in {"returned", "thrown"}
    /\ LET r == analyzeStart(IdleCall, world[c], Globals, transformers)
       IN  /\ calls' = [calls EXCEPT ![c] = r.call]
           /\ SetGlobals(r.g)
    /\ UNCHANGED <<world, transformers, explainArg, explainOut>>

Settled == pipelinesPromise \in {"fulfilled", "rejected"}

\* classifyText resumes from its await of ensurePipelines: it calls the text
\* classifier, or the rejection goes up to analyze
ResumeText(c) ==
    /\ calls[c].pc = "awaitPipelinesText"
    /\ Settled
    /\ calls' = [calls EXCEPT ![c] =
            IF pipelinesPromise = "rejected"
            THEN onError(rejected(calls[c], InitError), world[c], InitError)
            ELSE [calls[c] EXCEPT !.pc = "awaitTextClassifier", !.textCalls = @ + 1]]
    /\ UNCHANGED <<world, transformers, pipelinesPromise, initPc, initStarts,
                   explainArg, explainOut>>

\* the text classifier settles; on success classifyText returns and analyze
\* goes on with the image
TextClassifierSettle(c, ok) ==
    /\ calls[c].pc = "awaitTextClassifier"
    /\ IF ok
       THEN LET c1 == [calls[c] EXCEPT !.textInfo = classifyTextResult(world[c].textOut),
                                       !.pending = @ \ {"text"}]
                r  == imageOrFinish(c1, world[c], Globals, transformers)
            IN  /\ calls' = [calls EXCEPT ![c] = r.call]
                /\ SetGlobals(r.g)
       ELSE /\ calls' = [calls EXCEPT ![c] =
                    onError(rejected(calls[c], ERR_TEXT_CLASSIFIER), world[c],
                            ERR_TEXT_CLASSIFIER)]
            /\ UNCHANGED <<pipelinesPromise, initPc, initStarts>>
    /\ UNCHANGED <<world, transformers, explainArg, explainOut>>

\* classifyImage resumes from its await of ensurePipelines
ResumeImage(c) ==
    /\ calls[c].pc = "awaitPipelinesImage"
    /\ Settled
    /\ calls' = [calls EXCEPT ![c] =
            IF pipelinesPromise = "rejected"
            THEN onError(rejected(calls[c], InitError), world[c], InitError)
            ELSE [calls[c] EXCEPT !.pc = "awaitImageClassifier", !.imageCalls = @ + 1]]
    /\ UNCHANGED <<world, transformers, pipelinesPromise, initPc, initStarts,
                   explainArg, explainOut>>

\* the image classifier settles; on success classifyImage returns and analyze
\* runs through to its return
ImageClassifierSettle(c, ok) ==
    /\ calls[c].pc = "awaitImageClassifier"
    /\ calls' = [calls EXCEPT ![c] =
            IF ok
            THEN finish([calls[c] EXCEPT
                            !.imageInfo = classifyImageResult(world[c].imageOut),
                            !.pending = @ \ {"image"}], world[c])
            ELSE onError(rejected(calls[c], ERR_IMAGE_CLASSIFIER), world[c],
                         ERR_IMAGE_CLASSIFIER)]
    /\ UNCHANGED <<world, transformers, pipelinesPromise, initPc, initStarts,
                   explainArg, explainOut>>

-----------------------------------------------------------------------------
(* JavaScript values, as far as explain looks at its argument *)

JUndefined == [t |-> "undefined"]
JNull == [t |-> "null"]
JNaN == [t |-> "number", nan |-> TRUE, v |-> 0]
JNum(x) == [t |-> "number", nan |-> FALSE, v |-> x]
JStr(s) == [t |-> "string", v |-> s]
JBool(b) == [t |-> "boolean", v |-> b]
JSymbol == [t |-> "symbol"]
\* props: property name -> descriptor
JObj(props) == [t |-> "object", props |-> props]

\* property descriptors: a data property, or an accessor whose getter throws
Data(v) == [throws |-> FALSE, v |-> v]
Throwing == [throws |-> TRUE]

\* the outcome of an evaluation step: a value, or a thrown exception
Ok(v) == [ok |-> TRUE, v |-> v]
Thrown == [ok |-> FALSE]

\* o.k
Get(o, k) ==
    IF o.t \in {"undefined", "null"} THEN Thrown
    ELSE IF o.t = "object" /\ k \in DOMAIN o.props
         THEN IF o.props[k].throws THEN Thrown ELSE Ok(o.props[k].v)
         ELSE Ok(JUndefined)

\* o?.k
OptGet(o, k) == IF o.t \in {"undefined", "null"} THEN Ok(JUndefined) ELSE Get(o, k)

Truthy(v) ==
    CASE v.t \in {"undefined", "null"} -> FALSE
      [] v.t = "number"  -> ~v.nan /\ v.v # 0
      [] v.t = "string"  -> v.v # ""
      [] v.t = "boolean" -> v.v
      [] OTHER -> TRUE

RECURSIVE DigitsValue(_, _, _)
DigitsValue(s, i, acc) ==
    IF i > Len(s) THEN acc
    ELSE DigitsValue(s, i + 1,
            10 * acc + ((CHOOSE k \in 1..10 : CharAt(DigitChars, k) = CharAt(s, i)) - 1))

AllDigits(s) == \A i \in 1..Len(s) : CharIn(CharAt(s, i), DigitChars)

\* ToNumber, for the operand of score * 100 (strings: empty or decimal digits,
\* anything else is NaN)
ToNumber(v) ==
    CASE v.t = "undefined" -> Ok(JNaN)
      [] v.t = "null"      -> Ok(JNum(0))
      [] v.t = "number"    -> Ok(v)
      [] v.t = "boolean"   -> Ok(JNum(IF v.v THEN Fx(1) ELSE 0))
      [] v.t = "string"    -> Ok(IF AllDigits(v.v) THEN JNum(Fx(DigitsValue(v.v, 1, 0)))
                                 ELSE JNaN)
      [] v.t = "symbol"    -> Thrown
      [] OTHER             -> Ok(JNaN)

\* Number.prototype.toString for the numbers of the model: integers and
\* numbers of at most two decimals
NumberToString(x) ==
    LET a  == IF x < 0 THEN 0 - x ELSE x
        h  == (a * 100) \div Unit
        ip == h \div 100
        fr == h % 100
        sign == IF x < 0 THEN "-" ELSE ""
    IN  IF fr = 0 THEN sign \o ToString(ip)
        ELSE IF fr % 10 = 0 THEN sign \o ToString(ip) \o "." \o ToString(fr \div 10)
        ELSE IF fr < 10 THEN sign \o ToString(ip) \o ".0" \o ToString(fr)
        ELSE sign \o ToString(ip) \o "." \o ToString(fr)

\* the string conversion of a template literal
ToStr(v) ==
    CASE v.t = "undefined" -> Ok("undefined")
      [] v.t = "null"      -> Ok("null")
      [] v.t = "number"    -> Ok(IF v.nan THEN "NaN" ELSE NumberToString(v.v))
      [] v.t = "boolean"   -> Ok(IF v.v THEN "true" ELSE "false")
      [] v.t = "string"    -> Ok(v.v)
      [] v.t = "symbol"    -> Thrown
      [] OTHER             -> Ok("[object Object]")

\* Math.round(x * 100) on a JavaScript number
RoundPercent(n) == IF n.nan THEN JNaN ELSE JNum(MathRound(n.v * 100))

-----------------------------------------------------------------------------
(* explain, src/ai.js:288-305 *)

\* U+2022 with a blank on either side, the separator of lines.join
BULLET == " <U+2022> "

NO_SIGNALS == "No model signals available."
UNAVAILABLE == "Explanation unavailable."

\* `${prefix}"${top.label}" (${Math.round(top.score*100)}%)`
SuggestLine(prefix, top) ==
    LET label == Get(top, "label")
        ls    == IF label.ok THEN ToStr(label.v) ELSE Thrown
        score == IF ls.ok THEN Get(top, "score") ELSE Thrown
        num   == IF score.ok THEN ToNumber(score.v) ELSE Thrown
        ps    == IF num.ok THEN ToStr(RoundPercent(num.v)) ELSE Thrown
    IN  IF ps.ok THEN Ok(prefix \o "\"" \o ls.v \o "\" (" \o ps.v \o "%)") ELSE Thrown

\* `Edible decision: ${e.isEdible ? ... : ...} (conf ${e.confidence}%)`
EdibleLine(e) ==
    LET ie   == Get(e, "isEdible")
        conf == IF ie.ok THEN Get(e, "confidence") ELSE Thrown
        cs   == IF conf.ok THEN ToStr(conf.v) ELSE Thrown
    IN  IF cs.ok
        THEN Ok("Edible decision: "
                \o (IF Truthy(ie.v) THEN "likely edible" ELSE "likely not edible")
                \o " (conf " \o cs.v \o "%)")
        ELSE Thrown

\* res?.model?.<which>: the value, or a throw
ModelTop(res, which) ==
    LET m == OptGet(res, "model")
    IN  IF m.ok THEN OptGet(m.v, which) ELSE Thrown

RECURSIVE Join(_, _)
Join(lines, sep) ==
    IF Len(lines) = 0 THEN ""
    ELSE IF Len(lines) = 1 THEN lines[1]
    ELSE lines[1] \o sep \o Join(Tail(lines), sep)

\* lines.push(line), the line being a string or a throw
PushLine(acc, line) == IF line.ok THEN Ok(Append(acc.v, line.v)) ELSE Thrown

\* one if statement of the try block: acc is the lines pushed so far (or a
\* throw), access the tested expression, line the pushed string
IfPush(acc, access, line) ==
    IF ~acc.ok \/ ~access.ok THEN Thrown
    ELSE IF Truthy(access.v) THEN PushLine(acc, line)
    ELSE acc

TextStep(res, acc) ==
    IfPush(acc, ModelTop(res, "textTop"),
           SuggestLine("Text suggests: ", ModelTop(res, "textTop").v))

ImageStep(res, acc) ==
    IfPush(acc, ModelTop(res, "imageTop"),
           SuggestLine("Image suggests: ", ModelTop(res, "imageTop").v))

EdibleStep(res, acc) ==
    IfPush(acc, OptGet(res, "edible"), EdibleLine(OptGet(res, "edible").v))

\* the try block: the lines pushed, or a throw
ExplainLines(res) ==
    CHOOSE l3 \in {EdibleStep(res, l2) :
                    l2 \in {ImageStep(res, l1) :
                             l1 \in {TextStep(res, Ok(<<>>))}}} : TRUE

\* explain with the try/catch left out: a throw leaves it
explain_noCatch(res) ==
    LET l == ExplainLines(res)
    IN  IF ~l.ok THEN Thrown
        ELSE IF Len(l.v) = 0 THEN Ok(NO_SIGNALS)
        ELSE Ok(Join(l.v, BULLET))

\* what the call explain(res) evaluates to
explain(res) ==
    LET l == ExplainLines(res)
    IN  IF ~l.ok THEN Ok(UNAVAILABLE)
        ELSE IF Len(l.v) = 0 THEN Ok(NO_SIGNALS)
        ELSE Ok(Join(l.v, BULLET))

\* explain(explainArg) is called
ExplainCall ==
    /\ explainOut = Null
    /\ explainOut' = explain(explainArg)
    /\ UNCHANGED <<world, transformers, pipelinesPromise, initPc, initStarts, calls,
                   explainArg>>

-----------------------------------------------------------------------------
(* The inputs of the model *)

Scores == {Hundredths((100 * k) \div ScoreSteps) : k \in 0..ScoreSteps}

NoTextOut == [labels |-> <<>>, scores |-> <<>>]

\* answers of the text classifier: each of the 15 candidate labels alone, the
\* first of them at each score, a ranking whose greatest score is not first,
\* a tie, and no label at all
TextOuts ==
    {[labels |-> <<TEXT_LABELS[i]>>, scores |-> <<Hundredths(90)>>] : i \in DOMAIN TEXT_LABELS}
    \cup {[labels |-> <<TEXT_LABELS[1]>>, scores |-> <<sc>>] : sc \in Scores}
    \cup {[labels |-> <<"toy", "drink">>, scores |-> <<Hundredths(40), Hundredths(90)>>],
          [labels |-> <<"fruit", "meat">>, scores |-> <<Hundredths(70), Hundredths(70)>>],
          NoTextOut}

ImageLabels ==
    {"banana", "detergent bottle", "Granny Smith", "PIZZA", "remote control",
     "jersey, T-shirt, tee shirt", "lotion", "teddy", ""}

\* answers of the image classifier: each label alone, one of them at each
\* score, two ranked entries, and none
ImageOuts ==
    {<<[label |-> l, score |-> Hundredths(80)]>> : l \in ImageLabels}
    \cup {<<[label |-> "teddy", score |-> sc]>> : sc \in Scores}
    \cup {<<[label |-> "water bottle", score |-> Hundredths(60)],
            [label |-> "banana", score |-> Hundredths(30)]>>,
          <<>>}

Texts ==
    {"", "  ", "Bleach!", "Bottle, battery, tuna & beef", "battery fish",
     "fish and meat", "beef", "banana soap", "green tea", "hello"}

ImageNames == {"", "bleach.jpg", "bottle.png"}

ImageHandles == {"", "blob:photo"}

NonBlank(t) == t # "" /\ Len(trim(t)) > 0

\* the worlds over the given sets; an answer of a classifier that is never
\* asked is left at its empty value
WorldsOver(texts, names, images, touts, iouts) ==
    {w \in [text : texts, imageName : names, image : images, location : {""},
            textOut : touts \cup {NoTextOut}, imageOut : iouts \cup {<<>>}] :
        /\ ~NonBlank(w.text) => w.textOut = NoTextOut
        /\ w.image = "" => w.imageOut = <<>>}

FnWorlds == WorldsOver(Texts, ImageNames, ImageHandles, TextOuts, ImageOuts)

\* the inputs of the concurrent calls: text or only blanks, image or none, and
\* a classifier that is asked answers with one label
FlowWorlds ==
    {w \in WorldsOver({"  ", "bleach"}, {""}, ImageHandles,
                      {[labels |-> <<"cleaning product">>, scores |-> <<Hundredths(90)>>]},
                      {<<[label |-> "detergent bottle", score |-> Hundredths(80)]>>}) :
        /\ NonBlank(w.text) => w.textOut # NoTextOut
        /\ w.image # "" => w.imageOut # <<>>}

-----------------------------------------------------------------------------
(* Arguments of explain *)

\* a report as the JavaScript value explain reads: model and edible
TopToJS(top) ==
    IF top = Null THEN JNull
    ELSE JObj([label |-> Data(JStr(top.label)), score |-> Data(JNum(top.score))])

ReportToJS(r) ==
    JObj([model  |-> Data(JObj([textTop  |-> Data(TopToJS(r.model.textTop)),
                                imageTop |-> Data(TopToJS(r.model.imageTop))])),
          edible |-> Data(JObj([isEdible   |-> Data(JBool(r.edible.isEdible)),
                                confidence |-> Data(JNum(r.edible.confidence)),
                                explain    |-> Data(JStr(r.edible.explain))]))])

\* the reports analyze returns in the worlds of FlowWorlds
FlowReports ==
    {ReportToJS(fusion(w, keywords(w.text \o " " \o w.imageName),
                       IF NonBlank(w.text) THEN classifyTextResult(w.textOut) ELSE Null,
                       IF w.image # "" THEN classifyImageResult(w.imageOut) ELSE Null).report)
        : w \in FlowWorlds}

Absent == [absent |-> TRUE]

\* an object of the two properties, a property whose descriptor is Absent left out
Obj2(k1, d1, k2, d2) ==
    JObj([k \in {k \in {k1, k2} : (IF k = k1 THEN d1 ELSE d2) # Absent} |->
            IF k = k1 THEN d1 ELSE d2])

TopValues ==
    {JNull, JNum(Fx(5)), JObj(<<>>),
     Obj2("label", Data(JStr("banana")), "score", Data(JNum(Hundredths(87)))),
     Obj2("label", Data(JSymbol), "score", Data(JNum(Hundredths(50)))),
     Obj2("label", Data(JStr("x")), "score", Data(JSymbol)),
     Obj2("label", Throwing, "score", Data(JNum(Hundredths(50)))),
     Obj2("label", Data(JUndefined), "score", Data(JStr("abc")))}

TopDescriptors == {Absent, Throwing} \cup {Data(v) : v \in TopValues}

ModelDescriptors ==
    {Absent, Throwing, Data(JNull), Data(JStr("m"))}
    \cup {Data(Obj2("textTop", t, "imageTop", i)) : t \in TopDescriptors, i \in TopDescriptors}

EdibleDescriptors ==
    {Absent, Throwing, Data(JNull), Data(JBool(TRUE)), Data(JObj(<<>>)),
     Data(Obj2("isEdible", Data(JBool(TRUE)), "confidence", Data(JNum(Fx(80))))),
     Data(Obj2("isEdible", Data(JBool(FALSE)), "confidence", Data(JNum(Fx(50))))),
     Data(Obj2("isEdible", Throwing, "confidence", Data(JNum(Fx(50))))),
     Data(Obj2("isEdible", Data(JBool(TRUE)), "confidence", Data(JSymbol)))}

ExplainArgs ==
    {JUndefined, JNull, JNum(Fx(7)), JStr("report")}
    \cup {Obj2("model", m, "edible", e) : m \in ModelDescriptors, e \in EdibleDescriptors}
    \cup FlowReports

-----------------------------------------------------------------------------
(* Specifications *)

InitCommon ==
    /\ transformers \in BOOLEAN
    /\ pipelinesPromise = "null"
    /\ initPc = "none"
    /\ initStarts = 0
    /\ calls = [c \in DOMAIN world |-> IdleCall]

\* NCalls concurrent calls of analyze
Init ==
    /\ world \in [1..NCalls -> FlowWorlds]
    /\ InitCommon
    /\ explainArg = JUndefined
    /\ explainOut = Null

\* one call of analyze over the wide inputs
InitFn ==
    /\ world \in [{1} -> FnWorlds]
    /\ InitCommon
    /\ explainArg = JUndefined
    /\ explainOut = Null

\* one call of explain
InitExplain ==
    /\ world = <<>>
    /\ transformers = FALSE
    /\ pipelinesPromise = "null"
    /\ initPc = "none"
    /\ initStarts = 0
    /\ calls = <<>>
    /\ explainArg \in ExplainArgs
    /\ explainOut = Null

Next ==
    \/ \E c \in Callers : AnalyzeCall(c)
    \/ \E ok \in BOOLEAN : ScriptLoad(ok)
    \/ \E ok \in BOOLEAN : TextPipelineSettle(ok)
    \/ \E ok \in BOOLEAN : ImagePipelineSettle(ok)
    \/ \E c \in Callers : ResumeText(c)
    \/ \E c \in Callers, ok \in BOOLEAN : TextClassifierSettle(c, ok)
    \/ \E c \in Callers : ResumeImage(c)
    \/ \E c \in Callers, ok \in BOOLEAN : ImageClassifierSettle(c, ok)

NextExplain == ExplainCall

\* the concurrent callers also call again after their call has settled
NextFlow ==
    \/ Next
    \/ \E c \in Callers : AnalyzeAgain(c)

Spec == Init /\ [][NextFlow]_vars

SpecFn == InitFn /\ [][Next]_vars

SpecExplain == InitExplain /\ [][NextExplain]_vars

\* a call of analyze that awaits the pipelines promise resumes once the promise
\* is settled: the reaction of a settled promise is a queued microtask, and the
\* event loop runs its microtasks
SpecLive ==
    /\ Spec
    /\ \A c \in 1..NCalls : WF_vars(ResumeText(c)) /\ WF_vars(ResumeImage(c))

-----------------------------------------------------------------------------
(* Properties *)

Returned(c) == calls[c].pc = "returned"

\* the closed enumeration Category of the data model
CATEGORIES ==
    {"fruit", "vegetable", "dairy", "meat", "drink", "snack", "cleaning product",
     "electronic device", "cosmetic", "clothing", "food product"}

\* the text labels that no rule of the category mapping matches and that are
\* no declared category
PASSED_THROUGH == {"toy", "medication", "plastic packaging"}

TextLabelInVocabulary(c) ==
    \/ calls[c].result.model.textTop = Null
    \/ includes(TEXT_LABELS, calls[c].result.model.textTop.label)

\* C1, as stated: with textTop absent or carrying one of the 15 text labels and
\* any image label, the coarse category computed by analyze is one of the 11
\* declared categories.
C1_CategoryIsDeclared ==
    \A c \in Callers :
        (Returned(c) /\ TextLabelInVocabulary(c)) => calls[c].coarse \in CATEGORIES

\* C1, amended: under the same inputs the coarse category is one of the 11
\* declared categories, except that the text labels toy, medication and plastic
\* packaging pass through unchanged as the category.
C1_CategoryDeclaredOrPassedThrough ==
    \A c \in Callers :
        (Returned(c) /\ TextLabelInVocabulary(c)) =>
            LET textTop == calls[c].result.model.textTop
            IN  IF textTop # Null /\ textTop.label \in PASSED_THROUGH
                THEN calls[c].coarse = textTop.label
                ELSE calls[c].coarse \in CATEGORIES

\* a call has returned whose text label toy came out as the category
C1_Witness ==
    \E c \in Callers :
        /\ Returned(c)
        /\ calls[c].result.model.textTop # Null
        /\ calls[c].result.model.textTop.label = "toy"
        /\ calls[c].coarse = "toy"

\* C2: in every report analyze returns, nutrition is present exactly when
\* edible.isEdible is true.
C2_NutritionIffEdible ==
    \A c \in Callers :
        Returned(c) =>
            ((calls[c].result.nutrition # Null) <=> calls[c].result.edible.isEdible)

\* a report with an edible verdict and its nutrition estimate
C2_Witness ==
    \E c \in Callers :
        /\ Returned(c)
        /\ calls[c].result.edible.isEdible
        /\ calls[c].result.nutrition # Null
        /\ calls[c].result.nutrition.kcal = Fx(60)

\* C3: the verdict is false whenever a keyword is a non-edible hint, otherwise
\* true exactly when the image label matches the edible pattern or a keyword is
\* an edible hint; the confidence is 80 when the image label matches, else 75
\* when any hint keyword is present, else 50.
C3_EdibleDecisionPriority ==
    \A c \in Callers :
        Returned(c) =>
            LET kw    == calls[c].textKw
                im    == EdibleLikelyFromImage(calls[c].result.model.imageTop)
                ed    == \E k \in SetOf(kw) : k \in EDIBLE_HINTS
                nonEd == \E k \in SetOf(kw) : k \in NON_EDIBLE_HINTS
                v     == calls[c].result.edible
            IN  /\ nonEd => ~v.isEdible
                /\ ~nonEd => (v.isEdible <=> (im \/ ed))
                /\ v.confidence = Fx(IF im THEN 80 ELSE IF ed \/ nonEd THEN 75 ELSE 50)

\* a report where the image label matches, an edible and a non-edible keyword
\* are both present: not edible, at confidence 80
C3_Witness ==
    \E c \in Callers :
        /\ Returned(c)
        /\ EdibleLikelyFromImage(calls[c].result.model.imageTop)
        /\ "banana" \in SetOf(calls[c].textKw)
        /\ "soap" \in SetOf(calls[c].textKw)
        /\ ~calls[c].result.edible.isEdible
        /\ calls[c].result.edible.confidence = Fx(80)

AwaitsPipelines(c) == calls[c].pc \in {"awaitPipelinesText", "awaitPipelinesImage"}

\* C4: the initialisation body is started at most once, and every caller
\* waiting for the pipelines waits for the promise of that one start.
C4_SingleFlight ==
    /\ initStarts <= 1
    /\ \A c \in Callers :
        AwaitsPipelines(c) =>
            /\ pipelinesPromise # "null"
            /\ calls[c].awaited = initStarts

\* two callers wait for the pipelines while the one initialisation is in flight
C4_Witness ==
    \E c, d \in Callers :
        /\ c # d
        /\ AwaitsPipelines(c)
        /\ AwaitsPipelines(d)
        /\ pipelinesPromise = "pending"
        /\ initStarts = 1

\* C5: when analyze has assembled its report, no classifier call it issued is
\* still pending, and the report carries the answers of the calls it issued.
C5_FusionAfterClassifiers ==
    \A c \in Callers :
        Returned(c) =>
            /\ calls[c].pending = {}
            /\ NonBlank(world[c].text) =>
                /\ calls[c].textCalls = 1
                /\ calls[c].result.model.textTop = classifyTextResult(world[c].textOut).top
            /\ world[c].image # "" =>
                /\ calls[c].imageCalls = 1
                /\ calls[c].result.model.imageTop = classifyImageResult(world[c].imageOut).top

\* a report fused from a text and an image classification
C5_Witness ==
    \E c \in Callers :
        /\ Returned(c)
        /\ calls[c].textCalls = 1
        /\ calls[c].imageCalls = 1
        /\ calls[c].result.model.textTop # Null
        /\ calls[c].result.model.imageTop # Null

\* C6: when an awaited classifier call of analyze rejects (the pipelines
\* promise, the text classifier or the image classifier), analyze throws that
\* error and returns no report; no classifier is called a second time.
C6_FailurePropagates ==
    \A c \in Callers :
        /\ calls[c].raised # Null =>
            /\ calls[c].pc = "thrown"
            /\ calls[c].error = calls[c].raised
            /\ calls[c].result = Null
        /\ calls[c].textCalls <= 1
        /\ calls[c].imageCalls <= 1

\* the image classifier failed after the text classification had succeeded:
\* analyze threw and returned nothing
C6_Witness ==
    \E c \in Callers :
        /\ calls[c].raised = ERR_IMAGE_CLASSIFIER
        /\ calls[c].textInfo # Null
        /\ calls[c].pc = "thrown"
        /\ calls[c].error = ERR_IMAGE_CLASSIFIER
        /\ calls[c].result = Null

ScenarioB(c) ==
    /\ Returned(c)
    /\ "bleach" \in SetOf(calls[c].textKw)
    /\ calls[c].result.model.imageTop # Null
    /\ calls[c].result.model.imageTop.label = "detergent bottle"

CleaningProductReport(c) ==
    /\ calls[c].coarse = "cleaning product"
    /\ calls[c].result.eco.recycle = "Take to proper e-waste/hazard drop-off if applicable"
    /\ calls[c].result.alternatives =
            <<"Concentrates or refills", "Use vinegar/baking soda for some tasks">>

\* C7, as stated: with the keyword bleach and the image label detergent bottle
\* the report is not edible, of category cleaning product, without nutrition.
C7_ScenarioB ==
    \A c \in Callers :
        ScenarioB(c) =>
            /\ ~calls[c].result.edible.isEdible
            /\ CleaningProductReport(c)
            /\ calls[c].result.nutrition = Null

\* C7, amended: with the keyword bleach and the image label detergent bottle
\* the report is not edible and without nutrition; its category is the one of
\* the driving label: cleaning product when the text classifier's top label is
\* cleaning product, and drink when no text classification ran.
C7_ScenarioBByDrivingLabel ==
    \A c \in Callers :
        ScenarioB(c) =>
            LET textTop == calls[c].result.model.textTop
            IN  /\ ~calls[c].result.edible.isEdible
                /\ calls[c].result.nutrition = Null
                /\ (textTop # Null /\ textTop.label = "cleaning product") =>
                        CleaningProductReport(c)
                /\ textTop = Null => calls[c].coarse = "drink"

\* scenario B with the text label cleaning product
C7_Witness ==
    \E c \in Callers :
        /\ ScenarioB(c)
        /\ calls[c].result.model.textTop # Null
        /\ calls[c].result.model.textTop.label = "cleaning product"
        /\ CleaningProductReport(c)
        /\ calls[c].result.nutrition = Null

ConfidenceInRange(x) == IsInteger(x) /\ Fx(0) <= x /\ x <= Fx(100)

\* C9: with classifier scores in [0,1], overallConfidence and
\* edible.confidence of every report are integers in [0,100].
C9_ConfidenceRange ==
    \A c \in Callers :
        Returned(c) =>
            /\ ConfidenceInRange(calls[c].result.overallConfidence)
            /\ ConfidenceInRange(calls[c].result.edible.confidence)

\* a report without classifications whose average 58.33 was rounded to 58
C9_Witness ==
    \E c \in Callers :
        /\ Returned(c)
        /\ calls[c].result.model.textTop = Null
        /\ calls[c].result.model.imageTop = Null
        /\ calls[c].result.edible.confidence = Fx(75)
        /\ calls[c].result.overallConfidence = Fx(58)

\* C10: the tips follow a first-match priority over the keywords: bottle, else
\* battery, else tuna or fish, else beef or meat, else the generic tip; the
\* result is never empty.
C10_TipsPriority ==
    \A c \in Callers :
        Returned(c) =>
            LET ks   == SetOf(calls[c].textKw)
                tips == calls[c].result.tips
                b1   == "bottle" \in ks
                b2   == "battery" \in ks
                b3   == "tuna" \in ks \/ "fish" \in ks
                b4   == "beef" \in ks \/ "meat" \in ks
            IN  /\ Len(tips) > 0
                /\ b1 => tips[1] = "Carry a reusable bottle"
                /\ (~b1 /\ b2) => tips[1] = "Collect used batteries for proper recycling"
                /\ (~b1 /\ ~b2 /\ b3) => tips[1] = "Look for MSC-certified seafood"
                /\ (~b1 /\ ~b2 /\ ~b3 /\ b4) =>
                        tips[1] = "Moderate red meat intake to lower emissions"
                /\ (~b1 /\ ~b2 /\ ~b3 /\ ~b4) =>
                        tips[1] = "Check your local recycling guide for specific rules"

\* bottle wins over battery, tuna and beef, whatever the category
C10_Witness ==
    \E c \in Callers :
        /\ Returned(c)
        /\ {"bottle", "battery", "tuna", "beef"} \subseteq SetOf(calls[c].textKw)
        /\ calls[c].coarse = "meat"
        /\ calls[c].result.tips = TIP_BOTTLE

\* the argument of explain, read structurally
HasProp(o, k) == o.t = "object" /\ k \in DOMAIN o.props
PropThrows(o, k) == HasProp(o, k) /\ o.props[k].throws
PropValue(o, k) == IF HasProp(o, k) /\ ~o.props[k].throws THEN o.props[k].v ELSE JUndefined

ArgModel == PropValue(explainArg, "model")
ArgTop(which) == PropValue(ArgModel, which)
ArgEdible == PropValue(explainArg, "edible")

TextPresent == Truthy(ArgTop("textTop"))
ImagePresent == Truthy(ArgTop("imageTop"))
EdiblePresent == Truthy(ArgEdible)

\* reading or formatting a suggestion raises: a throwing getter, or a symbol
\* where a string or a number is needed
TopReadRaises(which) ==
    \/ PropThrows(ArgModel, which)
    \/ /\ Truthy(ArgTop(which))
       /\ \/ PropThrows(ArgTop(which), "label")
          \/ PropValue(ArgTop(which), "label").t = "symbol"
          \/ PropThrows(ArgTop(which), "score")
          \/ PropValue(ArgTop(which), "score").t = "symbol"

EdibleReadRaises ==
    \/ PropThrows(explainArg, "edible")
    \/ /\ EdiblePresent
       /\ \/ PropThrows(ArgEdible, "isEdible")
          \/ PropThrows(ArgEdible, "confidence")
          \/ PropValue(ArgEdible, "confidence").t = "symbol"

ReadRaises ==
    \/ PropThrows(explainArg, "model")
    \/ TopReadRaises("textTop")
    \/ TopReadRaises("imageTop")
    \/ EdibleReadRaises

SignalCount ==
    (IF TextPresent THEN 1 ELSE 0) + (IF ImagePresent THEN 1 ELSE 0)
        + (IF EdiblePresent THEN 1 ELSE 0)

StartsWith(s, p) == Len(s) >= Len(p) /\ SubSeq(s, 1, Len(p)) = p

Occurrences(s, p) ==
    Cardinality({i \in 1..(Len(s) - Len(p) + 1) : SubSeq(s, i, i + Len(p) - 1) = p})

\* the line of a signal stands first, or after a separator when a signal
\* precedes it
LineInPlace(v, present, preceded, prefix) ==
    IF present
    THEN /\ Occurrences(v, prefix) = 1
         /\ IF preceded THEN Contains(v, BULLET \o prefix) ELSE StartsWith(v, prefix)
    ELSE Occurrences(v, prefix) = 0

\* the report of analyze for the text "bleach" with an image
BleachReport ==
    ReportToJS(fusion([text |-> "bleach", imageName |-> "", location |-> ""],
                      <<"bleach">>,
                      [top |-> [label |-> "cleaning product", score |-> Hundredths(90)]],
                      [top |-> [label |-> "detergent bottle", score |-> Hundredths(80)]]).report)

\* C8: explain returns a string for every argument and never raises: the fixed
\* fallback when reading the report raises, the no-signals string when none of
\* the three signals is present, and otherwise one line per present signal, in
\* the order text, image, edibility, joined by the separator.
C8_ExplainTotal ==
    explainOut # Null =>
        /\ explainOut.ok
        /\ ReadRaises => explainOut.v = UNAVAILABLE
        /\ (~ReadRaises /\ SignalCount = 0) => explainOut.v = NO_SIGNALS
        /\ (~ReadRaises /\ SignalCount > 0) =>
            /\ Occurrences(explainOut.v, BULLET) = SignalCount - 1
            /\ LineInPlace(explainOut.v, TextPresent, FALSE, "Text suggests: ")
            /\ LineInPlace(explainOut.v, ImagePresent, TextPresent, "Image suggests: ")
            /\ LineInPlace(explainOut.v, EdiblePresent, TextPresent \/ ImagePresent,
                           "Edible decision: ")
        /\ explainArg = BleachReport =>
            explainOut.v = "Text suggests: \"cleaning product\" (90%)" \o BULLET
                           \o "Image suggests: \"detergent bottle\" (80%)" \o BULLET
                           \o "Edible decision: likely not edible (conf 75%)"

\* explain was called on a report whose text label has a throwing getter, next
\* to a well-formed edibility verdict, and returned the fallback
C8_Witness ==
    /\ explainOut # Null
    /\ PropThrows(ArgTop("textTop"), "label")
    /\ EdiblePresent
    /\ ~EdibleReadRaises
    /\ explainOut.ok
    /\ explainOut.v = UNAVAILABLE

\* the pipelines promise is rejected: the initialisation attempt has failed
InitFailed == pipelinesPromise = "rejected"

\* the input of caller c has non-blank text or an image
Supplies(c) == NonBlank(world[c].text) \/ world[c].image # ""

\* analyze was called by c after the initialisation had failed
CalledAfterFailure(c) == calls[c].pc # "idle" /\ calls[c].afterFailure

FailedWithInitError(c) ==
    /\ calls[c].pc = "thrown"
    /\ calls[c].error = InitError
    /\ calls[c].result = Null

\* once failed, the promise stays rejected for the same reason, no new attempt
\* is started, and a call made from then on either waits for the rejected
\* promise or has thrown its reason (text or image supplied), or has returned
\* a report (neither supplied)
C11_Step ==
    InitFailed =>
        /\ pipelinesPromise' = "rejected"
        /\ initPc' = initPc
        /\ initStarts' = initStarts
        /\ \A c \in Callers :
            calls'[c].afterFailure =>
                IF Supplies(c)
                THEN \/ calls'[c].pc \in {"awaitPipelinesText", "awaitPipelinesImage"}
                     \/ /\ calls'[c].pc = "thrown"
                        /\ calls'[c].error = InitError
                        /\ calls'[c].result = Null
                ELSE /\ calls'[c].pc = "returned"
                     /\ calls'[c].result # Null

\* C11: a failed pipeline initialisation is permanent. Once the pipelines
\* promise is rejected, no step starts a new initialisation attempt; every call
\* of analyze made from then on with non-blank text or an image ends by
\* throwing the reason of that rejection, and a call with neither text nor
\* image returns a report.
C11_FailurePermanent ==
    /\ [][C11_Step]_vars
    /\ \A c \in 1..NCalls :
        (CalledAfterFailure(c) /\ Supplies(c)) ~> FailedWithInitError(c)

\* after the one attempt failed, a call made with text or an image has thrown
\* the reason of the failure and a call made with neither has returned a report
C11_Witness ==
    /\ InitFailed
    /\ initStarts = 1
    /\ \E c, d \in Callers :
        /\ CalledAfterFailure(c)
        /\ Supplies(c)
        /\ FailedWithInitError(c)
        /\ CalledAfterFailure(d)
        /\ ~Supplies(d)
        /\ Returned(d)

====
